---- MODULE Spec2Model ----
(***************************************************************************)
(* Game of Life (src/src/App.svelte): the sparse cell set `boxes`, the     *)
(* candidate set `boxesToCalculate`, the timer-driven generation engine    *)
(* (startGame / paintNext / handlePause), the Clear and Move buttons and   *)
(* the pointer handlers that draw cells or pan the viewport.               *)
(*                                                                         *)
(* Arrays that the code keeps free of duplicates (boxes, boxesToCalculate, *)
(* initialBoxesToCalculate) and only reads through includes/filter/map are *)
(* sets here.  A key is the string getKey builds, held as the sequence of  *)
(* its characters.  A nullable number is <<>> (null) or <<n>>.             *)
(*                                                                         *)
(* Two specifications share the handlers.  SpecEngine is the engine under  *)
(* a user who draws, clears, starts and pauses (offset 0, draw mode);      *)
(* SpecPointer is the pointer, the Move button and the redraws while the    *)
(* engine is Idle.  startGame, paintNext and handlePause read and write only boxes,  *)
(* boxesToCalculate and gameTimeoutId; moveMode and movedPixels are read   *)
(* only by onMouseMove and drawBoxes.                                      *)
(***************************************************************************)
EXTENDS Integers, Sequences, FiniteSets, TLC

\* ---------------------------------------------------------------- bounds
\* Screen cells a pointer sample can land on (Math.floor(e.offsetX / scale),
\* Math.floor(e.offsetY / scale)): a window of 2 by 3 cells at the canvas origin.
ScreenX == 0..1
ScreenY == 0..2
\* The samples of the pointer-only specification: the 2 by 2 cells at the origin.
NearX == 0..1
NearY == 0..1
\* The viewport offset is kept within -MaxPan..MaxPan on each axis.
MaxPan == 1
\* Number of setTimeout calls (generations) in one behaviour.
MaxTimers == 3
\* Number of draw-mode toggles and Clears in one behaviour.
MaxEdits == 3

\* ------------------------------------------------------------------ keys
DigitChars == <<"0", "1", "2", "3", "4", "5", "6", "7", "8", "9">>

RECURSIVE NatToString(_)
NatToString(n) ==
    IF n < 10 THEN <<DigitChars[n + 1]>>
    ELSE NatToString(n \div 10) \o <<DigitChars[(n % 10) + 1]>>

\* Number -> string conversion of an integer, as `x + "/"` performs it.
NumberToString(n) == IF n < 0 THEN <<"-">> \o NatToString(-n) ELSE NatToString(n)

\* const getKey = (x, y) => x + "/" + y
getKey(x, y) == NumberToString(x) \o <<"/">> \o NumberToString(y)

IsDigit(c) == \E d \in 1..10 : DigitChars[d] = c
DigitValue(c) == (CHOOSE d \in 1..10 : DigitChars[d] = c) - 1

\* The digits parseInt consumes: it stops at the first character that is none.
RECURSIVE ParseDigits(_, _)
ParseDigits(s, acc) ==
    IF s = <<>> \/ ~IsDigit(Head(s)) THEN acc
    ELSE ParseDigits(Tail(s), 10 * acc + DigitValue(Head(s)))

\* parseInt(num) on the strings getKey produces (an optional sign, then digits).
parseInt(s) ==
    IF s # <<>> /\ Head(s) = "-" THEN 0 - ParseDigits(Tail(s), 0)
    ELSE ParseDigits(s, 0)

\* Index of the first "/" of s at or after position i.
RECURSIVE SlashFrom(_, _)
SlashFrom(s, i) == IF s[i] = "/" THEN i ELSE SlashFrom(s, i + 1)

\* box.split("/"): the part before the first "/" and the part after it.
split(s) ==
    LET i == SlashFrom(s, 1)
    IN  <<SubSeq(s, 1, i - 1), SubSeq(s, i + 1, Len(s))>>

\* const [idx1, idx2] = box.split("/").map((num) => parseInt(num))
ParseBox(box) ==
    LET parts == split(box)
    IN  <<parseInt(parts[1]), parseInt(parts[2])>>

\* ----------------------------------------------------------------- state
VARIABLES
    boxes,              \* live cells (keys)
    boxesToCalculate,   \* candidate set left by the last paintNext
    gameTimeoutId,      \* 0 is null, otherwise the id of the last setTimeout
    timers,             \* pending setTimeout callbacks: [id, initial], where
                        \* initial is the initialBoxesToCalculate its closure holds
    nextTimerId,        \* the id the next setTimeout returns
    mouseDown,
    moveMode,
    movedPixels,        \* viewport offset [x, y]
    lastMouseX,         \* <<>> or <<screen x>>
    lastMouseY,
    painted,            \* lastPaintedBoxes: the screen cells the canvas shows alive
    lastOp,             \* history: the handler that ran last
    edited,             \* history: an edit or Clear since the last startGame
    edits,              \* history: the number of edits and Clears so far
    tog,                \* history: the last draw-mode toggles (at most two) since the
                        \* last generation or Clear, each [key, before]: the key
                        \* toggled and the Cell-Set before that toggle
    cleared,            \* history: Clear was pressed and nothing was drawn since
    pausedAt            \* history: <<>>, or <<[btc, initial]>> while paused with no edit
                        \* made since the pause: the candidate sets the cancelled
                        \* paintNext would have used

vars == <<boxes, boxesToCalculate, gameTimeoutId, timers, nextTimerId, mouseDown,
          moveMode, movedPixels, lastMouseX, lastMouseY, painted, lastOp, edited, edits, tog,
          cleared, pausedAt>>

engineVars == <<boxesToCalculate, gameTimeoutId, timers, nextTimerId>>
pointerVars == <<mouseDown, lastMouseX, lastMouseY>>
histVars == <<edited, edits, tog, cleared, pausedAt>>

NULL == <<>>

\* The component once mounted: the declared initial values, drawing = true
\* (so the canvas listeners are attached), nothing drawn, engine Idle.
Init ==
    /\ boxes = {}
    /\ boxesToCalculate = {}
    /\ gameTimeoutId = 0
    /\ timers = {}
    /\ nextTimerId = 1
    /\ mouseDown = FALSE
    /\ moveMode = FALSE
    /\ movedPixels = [x |-> 0, y |-> 0]
    /\ lastMouseX = NULL
    /\ lastMouseY = NULL
    /\ painted = {}
    /\ lastOp = "init"
    /\ edited = FALSE
    /\ edits = 0
    /\ tog = <<>>
    /\ cleared = FALSE
    /\ pausedAt = <<>>

\* ---------------------------------------------------------------- canvas
\* The screen cells drawBoxes loops over (totalPossibleBoxes.h by .v).
Viewport == ScreenX \X ScreenY

\* movedPixels?.x || 0 when drawBoxes is called without movedPixels.
NoOffset == [x |-> 0, y |-> 0]

\* The offset of the redraw drawCanvasBorder requests: drawBoxes(scale, boxes).
ResizeOffset == NoOffset

\* paintedBoxes of drawBoxes(scale, passedBoxes, moved): the screen cells whose
\* looked-up key getKey(idx1 - moved.x, idx2 - moved.y) is in passedBoxes.
DrawBoxes(passedBoxes, moved) ==
    {getKey(c[1], c[2]) :
        c \in {d \in Viewport : getKey(d[1] - moved.x, d[2] - moved.y) \in passedBoxes}}

\* ---------------------------------------------------------------- engine
\* neighborsKeys with the cell itself pushed in place of its last neighbour.
NeighborsKeysWithSelf(idx1, idx2) ==
    << getKey(idx1 - 1, idx2 - 1), getKey(idx1 - 1, idx2), getKey(idx1 - 1, idx2 + 1),
       getKey(idx1, idx2 - 1), getKey(idx1, idx2 + 1),
       getKey(idx1 + 1, idx2 - 1), getKey(idx1 + 1, idx2), getKey(idx1, idx2) >>

\* neighborsKeys of getAliveNeighbours, in the order the code pushes them.
NeighborsKeys(idx1, idx2) ==
    << getKey(idx1 - 1, idx2 - 1), getKey(idx1 - 1, idx2), getKey(idx1 - 1, idx2 + 1),
       getKey(idx1, idx2 - 1), getKey(idx1, idx2 + 1),
       getKey(idx1 + 1, idx2 - 1), getKey(idx1 + 1, idx2), getKey(idx1 + 1, idx2 + 1) >>

\* aliveNeighbours of getAliveNeighbours: the reduce over neighborsKeys.
AliveNeighbours(idx1, idx2, bs) ==
    LET nk == NeighborsKeys(idx1, idx2)
    IN  Cardinality({n \in 1..8 : nk[n] \in bs})

\* [...new Set(array)]: the distinct keys of an array.
KeySet(seq) == {seq[n] : n \in 1..Len(seq)}

\* The neighborsKeys of a box and the box itself.
PushedKeysWithSelf(box) ==
    LET p == ParseBox(box)
    IN  KeySet(NeighborsKeys(p[1], p[2])) \cup {box}

\* The keys startGame and paintNext push for one box: its neighborsKeys.
PushedKeys(box) ==
    LET p == ParseBox(box)
    IN  KeySet(NeighborsKeys(p[1], p[2]))

\* initialBoxesToCalculate of startGame.
InitialBoxesToCalculate(bs) == UNION {PushedKeys(box) : box \in bs}

\* The rule, with a dead cell that has no live neighbour born as well.
RuleSpontaneous(alive, n) == (~alive /\ n \in {0, 3}) \/ (alive /\ n > 1 /\ n < 4)

\* Birth on 3 neighbours, and survival on 3 only.
RuleNoSurvival(alive, n) == n = 3

\* The condition of paintNext under which a candidate is alive next.
Rule(alive, n) == (~alive /\ n = 3) \/ (alive /\ n > 1 /\ n < 4)

\* The key paintNext rebuilds for a candidate: getKey(idx1, idx2).
Rekey(box) ==
    LET p == ParseBox(box)
    IN  getKey(p[1], p[2])

\* One candidate of paintNext: parsed, its neighbours counted, the rule applied.
AliveNext(box, bs) ==
    LET p == ParseBox(box)
    IN  Rule(getKey(p[1], p[2]) \in bs, AliveNeighbours(p[1], p[2], bs))

\* A paintNext that never falls back to initialBoxesToCalculate.
CandidatesNoFallback(btc, initial) == btc

\* (boxesToCalculate.length ? boxesToCalculate : initialBoxesToCalculate)
Candidates(btc, initial) == IF btc # {} THEN btc ELSE initial

\* The candidates paintNext finds alive in the next generation.
Survivors(bs, btc, initial) == {c \in Candidates(btc, initial) : AliveNext(c, bs)}

\* newBoxes of paintNext.
NewBoxes(bs, btc, initial) == {Rekey(box) : box \in Survivors(bs, btc, initial)}

\* nextBoxesToCalculate of paintNext, deduplicated.
NextBoxesToCalculate(bs, btc, initial) ==
    UNION {PushedKeys(box) : box \in Survivors(bs, btc, initial)}

\* The body of paintNext run by a closure whose initialBoxesToCalculate is
\* `initial`, on the timers left in `pending`.
PaintNextBody(initial, pending) ==
    /\ nextTimerId <= MaxTimers
    /\ boxes' = NewBoxes(boxes, boxesToCalculate, initial)
    /\ boxesToCalculate' = NextBoxesToCalculate(boxes, boxesToCalculate, initial)
    /\ gameTimeoutId' = nextTimerId
    /\ timers' = pending \cup {[id |-> nextTimerId, initial |-> initial]}
    /\ nextTimerId' = nextTimerId + 1

\* A Start button that is there while Running too.
StartButtonAlways == TRUE

\* {#if gameTimeoutId} Pause {:else} Start {/if}: the Start button is there.
StartButtonShown == gameTimeoutId = 0

\* startGame: builds initialBoxesToCalculate and runs paintNext at once.
StartGame ==
    /\ StartButtonShown
    /\ PaintNextBody(InitialBoxesToCalculate(boxes), timers)
    /\ lastOp' = "startGame"
    /\ edited' = FALSE
    /\ pausedAt' = <<>>
    /\ tog' = <<>>
    /\ painted' = DrawBoxes(boxes', movedPixels)
    /\ UNCHANGED <<edits, cleared>>
    /\ UNCHANGED <<pointerVars, moveMode, movedPixels>>

\* A pending timer fires and runs paintNext.
PaintNext ==
    \E t \in timers :
        /\ PaintNextBody(t.initial, timers \ {t})
        /\ lastOp' = "paintNext"
        /\ pausedAt' = <<>>
        /\ tog' = <<>>
        /\ painted' = DrawBoxes(boxes', movedPixels)
        /\ UNCHANGED <<pointerVars, moveMode, movedPixels, edited, edits, cleared>>

\* A clearTimeout that cancels nothing.
ClearTimeoutNone(id) == timers

\* window.clearTimeout(id)
ClearTimeout(id) == {t \in timers : t.id # id}

\* A pause that keeps the Candidate-Set.
PausedKeepsCandidates == boxesToCalculate

\* boxesToCalculate = [] of handlePause.
PausedBoxesToCalculate == {}

\* handlePause (the Pause button is there while gameTimeoutId is not null).
HandlePause ==
    /\ gameTimeoutId # 0
    /\ timers' = ClearTimeout(gameTimeoutId)
    /\ boxesToCalculate' = PausedBoxesToCalculate
    /\ gameTimeoutId' = 0
    /\ lastOp' = "handlePause"
    /\ pausedAt' = <<[btc |-> boxesToCalculate,
                      initial |-> UNION {t.initial : t \in timers}]>>
    /\ UNCHANGED <<boxes, nextTimerId, pointerVars, moveMode, movedPixels, edited, edits,
                   tog, cleared, painted>>

\* A Clear that leaves the cells.
ClearedKeepsBoxes == boxes

\* boxes = [] of the Clear button.
ClearedBoxes == {}

\* The Clear button: boxes = []; drawBoxes(scale).
Clear ==
    /\ edits < MaxEdits
    /\ boxes' = ClearedBoxes
    /\ lastOp' = "clear"
    /\ edited' = TRUE
    /\ edits' = edits + 1
    /\ pausedAt' = <<>>
    /\ tog' = <<>>
    /\ cleared' = TRUE
    /\ painted' = DrawBoxes({}, NoOffset)
    /\ UNCHANGED <<engineVars, pointerVars, moveMode, movedPixels>>

\* --------------------------------------------------------------- pointer
\* onMouseDown, then the reactive handleMouseDownChange(true).
MouseDown ==
    /\ mouseDown' = TRUE
    /\ lastOp' = "mouseDown"
    /\ UNCHANGED <<boxes, engineVars, moveMode, movedPixels, lastMouseX, lastMouseY,
                   painted, histVars>>

\* onMouseUp, then the reactive handleMouseDownChange(false).
MouseUp ==
    /\ mouseDown
    /\ mouseDown' = FALSE
    /\ lastMouseX' = NULL
    /\ lastMouseY' = NULL
    /\ lastOp' = "mouseUp"
    /\ UNCHANGED <<boxes, engineVars, moveMode, movedPixels, painted, histVars>>

\* The Move button.
ToggleMoveMode ==
    /\ moveMode' = ~moveMode
    /\ lastOp' = "moveMode"
    /\ UNCHANGED <<boxes, engineVars, pointerVars, movedPixels, painted, histVars>>

\* JavaScript truthiness of a nullable number.
Truthy(v) == v # NULL /\ v[1] # 0

\* A comparison that takes every sample for a new cell.
MovedAlways(x, y) == TRUE

\* lastMouseX !== x || lastMouseY !== y
Moved(x, y) == lastMouseX # <<x>> \/ lastMouseY # <<y>>

\* (lastMouseX !== x || lastMouseY !== y) && lastMouseX && lastMouseY
PanGuard(x, y) == Moved(x, y) /\ Truthy(lastMouseX) /\ Truthy(lastMouseY)

\* movedPixels after a move-mode sample at screen cell (x, y).
Panned(x, y) ==
    IF PanGuard(x, y)
    THEN [x |-> movedPixels.x - (lastMouseX[1] - x),
          y |-> movedPixels.y - (lastMouseY[1] - y)]
    ELSE movedPixels

\* A toggle that only ever adds.
ToggledAppendOnly(bs, key) == bs \cup {key}

\* [...new Set(boxes.includes(key) ? boxes.filter(k => k !== key) : [...boxes, key])]
Toggled(bs, key) == IF key \in bs THEN bs \ {key} ELSE bs \cup {key}

\* The key of the screen cell itself, the offset left out.
DrawKeyNoOffset(x, y) == getKey(x, y)

\* getKey(x - movedPixels.x, y - movedPixels.y)
DrawKey(x, y) == getKey(x - movedPixels.x, y - movedPixels.y)

\* The offset stays within the bound MaxPan.
InPanBound(p) == p.x \in -MaxPan..MaxPan /\ p.y \in -MaxPan..MaxPan

\* A handler that never takes the move-mode branch.
InMoveModeNever == FALSE

\* if (moveMode) of onMouseMove
InMoveMode == moveMode

\* The last two entries of the toggle history, with this toggle added.
Logged(key) ==
    LET t == Append(tog, [key |-> key, before |-> boxes])
    IN  IF Len(t) > 2 THEN Tail(t) ELSE t

\* onMouseMove with Math.floor(e.offsetX / scale) = x, Math.floor(e.offsetY / scale) = y;
\* the listener is on the window while mouseDown.
MouseMoveIn(XS, YS) ==
    \E x \in XS, y \in YS :
        /\ mouseDown
        /\ IF InMoveMode
           THEN /\ InPanBound(Panned(x, y))
                /\ movedPixels' = Panned(x, y)
                /\ lastMouseX' = <<x>>
                /\ lastMouseY' = <<y>>
                /\ painted' = IF PanGuard(x, y) THEN DrawBoxes(boxes, Panned(x, y))
                                                   ELSE painted
                /\ lastOp' = "pan"
                /\ UNCHANGED <<boxes, histVars>>
           ELSE IF Moved(x, y)
           THEN /\ edits < MaxEdits
                /\ edits' = edits + 1
                /\ boxes' = Toggled(boxes, DrawKey(x, y))
                /\ lastMouseX' = <<x>>
                /\ lastMouseY' = <<y>>
                /\ lastOp' = "draw"
                /\ edited' = TRUE
                /\ pausedAt' = <<>>
                /\ tog' = Logged(DrawKey(x, y))
                /\ cleared' = FALSE
                /\ painted' = DrawBoxes(boxes', movedPixels)
                /\ UNCHANGED movedPixels
           ELSE /\ lastOp' = "still"
                /\ UNCHANGED <<boxes, movedPixels, lastMouseX, lastMouseY, painted, histVars>>
        /\ UNCHANGED <<engineVars, mouseDown, moveMode>>

MouseMove == MouseMoveIn(ScreenX, ScreenY)

\* The same handler, the pointer staying within NearX by NearY.
MouseMoveNear == MouseMoveIn(NearX, NearY)

\* The key drawBoxes looks up for screen cell (idx1, idx2), called with the
\* current movedPixels: getKey(idx1 - (movedPixels?.x || 0), idx2 - (movedPixels?.y || 0)).
PaintKey(idx1, idx2) == getKey(idx1 - movedPixels.x, idx2 - movedPixels.y)

\* updatedValue of drawBoxes: screen cell (idx1, idx2) is painted alive.
PaintedAlive(idx1, idx2) == PaintKey(idx1, idx2) \in boxes

\* handleResize: drawCanvasBorder redraws everything through drawBoxes(scale, boxes).
Resize ==
    /\ painted' = DrawBoxes(boxes, ResizeOffset)
    /\ lastOp' = "resize"
    /\ UNCHANGED <<boxes, engineVars, pointerVars, moveMode, movedPixels, histVars>>

\* The Scale slider: the reactive callDrayBoxes(scale, undefined, undefined, false)
\* redraws everything through drawBoxes(scale, boxes, movedPixels).
ScaleChange ==
    /\ painted' = DrawBoxes(boxes, movedPixels)
    /\ lastOp' = "scale"
    /\ UNCHANGED <<boxes, engineVars, pointerVars, moveMode, movedPixels, histVars>>

\* The engine under a user who draws but never presses Move.
NextEngine ==
    \/ StartGame
    \/ PaintNext
    \/ HandlePause
    \/ Clear
    \/ MouseDown
    \/ MouseUp
    \/ MouseMove

SpecEngine == Init /\ [][NextEngine]_vars

\* The pointer handlers, the Move and Clear buttons, the Scale slider and window
\* resizes while the engine is Idle.
NextPointer ==
    \/ Clear
    \/ MouseDown
    \/ MouseUp
    \/ ToggleMoveMode
    \/ MouseMoveNear
    \/ Resize
    \/ ScaleChange

SpecPointer == Init /\ [][NextPointer]_vars

\* =========================================================== the claims
\* The Conway rule on coordinates, evaluated on every cell of the bounding
\* box of the live cells expanded by 2.
Deltas == ((-1..1) \X (-1..1)) \ {<<0, 0>>}

Live(bs) == {ParseBox(k) : k \in bs}

Min(S) == CHOOSE m \in S : \A n \in S : m <= n
Max(S) == CHOOSE m \in S : \A n \in S : m >= n

BoundingBox(live) ==
    IF live = {} THEN {}
    ELSE LET xs == {c[1] : c \in live}
             ys == {c[2] : c \in live}
         IN  ((Min(xs) - 2)..(Max(xs) + 2)) \X ((Min(ys) - 2)..(Max(ys) + 2))

LiveNeighbours(c, live) ==
    Cardinality({d \in Deltas : <<c[1] + d[1], c[2] + d[2]>> \in live})

Conway(alive, n) == IF alive THEN n \in {2, 3} ELSE n = 3

BruteNext(bs) ==
    LET live == Live(bs)
    IN  {getKey(c[1], c[2]) :
            c \in {b \in BoundingBox(live) : Conway(b \in live, LiveNeighbours(b, live))}}

\* A step in which paintNext ran (startGame runs it too).
Generated == nextTimerId' # nextTimerId

\* C1: every generation computed by startGame or by a later paintNext of the run,
\* while no edit or Clear happened since that startGame, is the brute-force
\* Conway next generation of the Cell-Set it was computed from.
C1_StepEqualsBruteForce ==
    [][(Generated /\ ~edited') => boxes' = BruteNext(boxes)]_vars

\* C1 witness: a timer-driven paintNext of an unedited run has produced the block
\* (four cells: one was born, since at most MaxEdits = 3 were drawn).
C1_Witness == lastOp = "paintNext" /\ ~edited /\ Cardinality(boxes) = 4

\* C2 (as claimed): in every reachable state the generation paintNext would
\* compute next from the current Cell-Set and Candidate-Set is the brute-force one.
C2_NeverDiverges ==
    /\ \A t \in timers :
           NewBoxes(boxes, boxesToCalculate, t.initial) = BruteNext(boxes)
    /\ gameTimeoutId = 0 =>
           NewBoxes(boxes, boxesToCalculate, InitialBoxesToCalculate(boxes)) = BruteNext(boxes)

\* C3 (as claimed): a startGame that follows a handlePause with no edit made while
\* paused computes the generation the cancelled paintNext would have computed.
C3_ResumeEqualsUnpaused ==
    [][(lastOp' = "startGame" /\ pausedAt # <<>>)
          => boxes' = NewBoxes(boxes, pausedAt[1].btc, pausedAt[1].initial)]_vars

\* C4: while Idle no timer callback is pending, no paintNext runs, and the
\* Cell-Set changes only by a draw-mode edit, Clear or the next startGame.
C4_NoStepWhileIdle ==
    [][/\ gameTimeoutId' = 0 => timers' = {}
       /\ gameTimeoutId = 0 => lastOp' # "paintNext"
       /\ (gameTimeoutId = 0 /\ boxes' # boxes) => lastOp' \in {"draw", "clear", "startGame"}]_vars

\* C4 witness: paused after a run, with an edit made while paused.
C4_Witness == gameTimeoutId = 0 /\ nextTimerId > 1 /\ lastOp = "draw"

\* C5: at most one generation step is scheduled, and it is the one gameTimeoutId
\* names: Running has exactly one pending paintNext, Idle has none.
C5_AtMostOneScheduled ==
    /\ Cardinality(timers) = (IF gameTimeoutId = 0 THEN 0 ELSE 1)
    /\ \A t \in timers : t.id = gameTimeoutId

\* C5 witness: a timer-driven paintNext has run and its one successor is pending.
C5_Witness == lastOp = "paintNext" /\ Cardinality(timers) = 1 /\ nextTimerId > 2

\* C6 (as claimed): right after Clear the Cell-Set is empty and the engine is Idle.
C6_ClearPauses == lastOp = "clear" => (boxes = {} /\ gameTimeoutId = 0 /\ timers = {})

\* C6 (amended): Clear empties the Cell-Set and leaves the engine as it was:
\* Running stays Running with its step scheduled, Idle stays Idle.
C6_ClearLeavesEngine ==
    [][lastOp' = "clear" =>
          (boxes' = {} /\ UNCHANGED <<gameTimeoutId, timers, boxesToCalculate>>)]_vars

\* C6 witness: Clear pressed while Running, after a timer-driven step.
C6_Witness == lastOp = "clear" /\ gameTimeoutId # 0 /\ timers # {} /\ nextTimerId > 2

\* C7: a draw-mode toggle flips the membership of its coordinate and of no other,
\* and two toggles of the same coordinate with no generation (and no Clear)
\* between them leave the Cell-Set as it was before the first.
C7_ToggleTwiceRestores ==
    /\ Len(tog) >= 1 =>
           LET t == tog[Len(tog)]
           IN  /\ (t.key \in boxes) # (t.key \in t.before)
               /\ \A k \in (boxes \cup t.before) \ {t.key} : (k \in boxes) = (k \in t.before)
    /\ (Len(tog) = 2 /\ tog[1].key = tog[2].key) =>
           /\ (tog[1].key \in boxes) = (tog[1].key \in tog[1].before)
           /\ boxes = tog[1].before

\* C7 witness: a cell toggled twice in a row on a Cell-Set that is not empty.
C7_Witness ==
    /\ Len(tog) = 2
    /\ tog[1].key = tog[2].key
    /\ boxes # {}

\* C8 (as claimed): in move mode the first sample of a gesture leaves the offset
\* alone and every later sample adds (current screen cell - previous screen cell).
C8_PanAccumulates ==
    [][lastOp' = "pan" =>
          IF lastMouseX = NULL /\ lastMouseY = NULL
          THEN movedPixels' = movedPixels
          ELSE movedPixels' = [x |-> movedPixels.x + (lastMouseX'[1] - lastMouseX[1]),
                               y |-> movedPixels.y + (lastMouseY'[1] - lastMouseY[1])]]_vars

\* C9: a pointer-move in move mode leaves the Cell-Set alone, one in draw mode
\* leaves the Viewport Offset alone, and none changes both.
C9_DrawPanExclusive ==
    [][lastOp' \in {"pan", "draw", "still"} =>
          /\ moveMode => boxes' = boxes
          /\ ~moveMode => movedPixels' = movedPixels
          /\ ~(boxes' # boxes /\ movedPixels' # movedPixels)]_vars

\* C9 witness: a pan has moved the offset while cells drawn before stay alive.
C9_Witness == lastOp = "pan" /\ movedPixels # [x |-> 0, y |-> 0] /\ boxes # {}

\* toScreen of the specification: logical + offset.
toScreen(c) == <<c[1] + movedPixels.x, c[2] + movedPixels.y>>

\* toLogical(toScreen(c)) = c for every live cell c, toLogical being the key onMouseMove builds.
RoundTrip ==
    \A k \in boxes :
        LET s == toScreen(ParseBox(k))
        IN  DrawKey(s[1], s[2]) = k

\* C10: under every offset reached by pans the draw mapping inverts the paint
\* mapping, and a draw-mode sample at screen cell s flips what is painted at s
\* and at no other screen cell; the canvas after the draw shows exactly that.
C10_DrawTogglesPaintedCell ==
    /\ RoundTrip
    /\ lastOp = "draw" =>
           /\ \A x \in ScreenX, y \in ScreenY :
                  (PaintedAlive(x, y) # (PaintKey(x, y) \in tog[Len(tog)].before))
                      = (<<x>> = lastMouseX /\ <<y>> = lastMouseY)
           /\ \A x \in ScreenX, y \in ScreenY :
                  PaintedAlive(x, y) = (getKey(x, y) \in painted)

\* C10 witness: a cell drawn under a non-zero offset.
C10_Witness == lastOp = "draw" /\ movedPixels.x # 0 /\ movedPixels.y # 0 /\ boxes # {}

\* C11: no spontaneous life: from Clear on, through startGame, handlePause and
\* every generation step, the Cell-Set is empty as long as nothing is drawn.
C11_NoSpontaneousLife == cleared => boxes = {}

\* C11 witness: a timer-driven generation of a run started after the Clear,
\* with an earlier run behind it or a second generation of this one.
C11_Witness ==
    /\ cleared
    /\ ~edited
    /\ lastOp = "paintNext"
    /\ nextTimerId > 3

\* The two phases of the blinker.
BlinkerV == {getKey(1, 0), getKey(1, 1), getKey(1, 2)}
BlinkerH == {getKey(0, 1), getKey(1, 1), getKey(2, 1)}

\* C12: a generation of an unedited run (the one startGame computes, and every
\* timer-driven one after it) takes {(1,0),(1,1),(1,2)} to {(0,1),(1,1),(2,1)}
\* and {(0,1),(1,1),(2,1)} back to {(1,0),(1,1),(1,2)}.
C12_BlinkerAlternates ==
    [][(Generated /\ ~edited') =>
          /\ boxes = BlinkerV => boxes' = BlinkerH
          /\ boxes = BlinkerH => boxes' = BlinkerV]_vars

\* C12 witness: the third generation of the blinker, computed by a timer-driven
\* step from the Candidate-Set the second one left.
C12_Witness ==
    /\ lastOp = "paintNext"
    /\ ~edited
    /\ boxes = BlinkerH
    /\ nextTimerId > 3

\* The 8 Moore neighbours of every live cell, and the same with the cells themselves.
Moore8(bs) == {getKey(c[1] + d[1], c[2] + d[2]) : c \in Live(bs), d \in Deltas}
Moore9(bs) == Moore8(bs) \cup bs

\* C13 (as claimed): the candidate set startGame builds contains every live cell
\* and its 8 neighbours, and so does the Candidate-Set after every paintNext
\* for the cells of the new generation.
C13_NineClosure ==
    [][/\ lastOp' = "startGame" =>
              \A t \in timers' : Moore9(boxes) \subseteq t.initial
       /\ Generated => Moore9(boxes') \subseteq boxesToCalculate']_vars

\* C13 (amended): both candidate sets are exactly the union of the 8 Moore
\* neighbours of the live cells; a live cell is in them only as the neighbour
\* of another live cell.
C13_EightNeighbours ==
    [][/\ lastOp' = "startGame" =>
              \A t \in timers' : t.initial = Moore8(boxes)
       /\ Generated => boxesToCalculate' = Moore8(boxes')]_vars

\* C13 witness: a timer-driven paintNext of a run started on live cells has left
\* a generation that is not empty.
C13_Witness ==
    /\ lastOp = "paintNext"
    /\ boxes # {}
    /\ boxesToCalculate # {}
    /\ \E t \in timers : t.initial # {}

\* C14 (as claimed): a timer-driven paintNext, which is never the first step of
\* its run, evaluates exactly the Candidate-Set the previous step left, also
\* when that set is empty, and not the start-time set.
C14_FallbackOnlyFirstStep ==
    \A t \in timers : Candidates(boxesToCalculate, t.initial) = boxesToCalculate

\* C15: startGame runs from Idle only and, in one step, applies exactly one
\* generation to the Cell-Set it found, replaces the Candidate-Set by the one
\* of the new generation, and leaves exactly one step scheduled, the one
\* gameTimeoutId names.
C15_StartRunsOneStep ==
    [][lastOp' = "startGame" =>
          /\ gameTimeoutId = 0
          /\ gameTimeoutId' # 0
          /\ boxes' = BruteNext(boxes)
          /\ boxesToCalculate' = Moore8(boxes')
          /\ nextTimerId' = nextTimerId + 1
          /\ Cardinality(timers') = 1
          /\ \A t \in timers' : t.id = gameTimeoutId']_vars

\* C15 witness: startGame has returned with a generation that is not empty.
C15_Witness == lastOp = "startGame" /\ boxes # {} /\ gameTimeoutId # 0

\* The keys on which two Cell-Sets differ.
Flipped(a, b) == (a \ b) \cup (b \ a)

\* C16: a pointer-move handled in draw mode on the screen cell of the sample
\* before it (the handler leaves that cell in lastMouseX, lastMouseY) leaves
\* the Cell-Set alone; on any other cell it toggles exactly one cell; the last
\* cell is forgotten whenever the button is up, so the first sample of a
\* gesture toggles.
C16_SameCellNoRetoggle ==
    [][/\ (~moveMode /\ lastOp' \in {"pan", "draw", "still"}) =>
              IF lastMouseX' = lastMouseX /\ lastMouseY' = lastMouseY
              THEN boxes' = boxes
              ELSE Cardinality(Flipped(boxes, boxes')) = 1
       /\ (~moveMode /\ lastOp' \in {"pan", "draw", "still"} /\ lastMouseX = NULL) =>
              boxes' # boxes
       /\ ~mouseDown' => (lastMouseX' = NULL /\ lastMouseY' = NULL)]_vars

\* C16 witness: in draw mode, a sample on the cell just toggled has been handled.
C16_Witness == lastOp = "still" /\ ~moveMode /\ Len(tog) >= 1 /\ boxes # {}

\* The live cells shifted by the Viewport Offset, those inside the viewport.
ShiftedLive ==
    {getKey(c[1] + movedPixels.x, c[2] + movedPixels.y) : c \in Live(boxes)}
        \cap {getKey(d[1], d[2]) : d \in Viewport}

\* C17 (as claimed): after every redraw, whatever triggered it, the screen cells
\* painted alive are the live cells shifted by the current offset.
C17_RedrawUsesCurrentOffset == painted = ShiftedLive

\* C18: whenever the engine is Idle the Candidate-Set is empty, and so every
\* startGame computes its generation from the candidate set built from the
\* Cell-Set as it is at that moment.
C18_IdleHasNoCandidates ==
    [][/\ gameTimeoutId = 0 => boxesToCalculate = {}
       /\ gameTimeoutId' = 0 => boxesToCalculate' = {}
       /\ lastOp' = "startGame" =>
              /\ Candidates(boxesToCalculate, Moore8(boxes)) = Moore8(boxes)
              /\ boxes' = NewBoxes(boxes, {}, Moore8(boxes))]_vars

\* C18 witness: paused at a moment when the Candidate-Set was not empty.
C18_Witness == gameTimeoutId = 0 /\ pausedAt # <<>> /\ pausedAt[1].btc # {}

====
